---------------------------- MODULE Spec2Model ----------------------------
(***************************************************************************)
(* TrafficSync: a grid of traffic-signal controllers (SignalControlAgent), *)
(* the emergency-vehicle coordinator (EmergencyVehicleAgent) and the       *)
(* step-driven engine (TrafficSimulation) that ties them together.         *)
(*                                                                         *)
(* The specifications share the variables:                                 *)
(*   SpecCtl      the public methods of one SignalControlAgent             *)
(*   SpecHeavy    the same controller fed counts of 90 and more            *)
(*   SpecFeed     process_traffic_data past the history window             *)
(*   SpecCtlStep  long runs of run_step seen from one controller           *)
(*   SpecEmg      the public methods of the EmergencyVehicleAgent          *)
(*   SpecSim      TrafficSimulation.run_step / run_simulation              *)
(*   SpecStep     dispatches and run_step, two vehicles                    *)
(*   SpecWide     SpecStep on the 4 x 4 grid                               *)
(*   SpecDist     DataProcessor.distribute_traffic_by_direction            *)
(***************************************************************************)
EXTENDS Integers, Sequences, FiniteSets, TLC

VARIABLES
    grid_size,              \* TrafficSimulation.grid_size
    intersections,          \* TrafficSimulation.intersections (row-major sequence)
    active_emergencies,     \* EmergencyVehicleAgent.active_emergencies
    emergency_order,        \* key order of the active_emergencies dict
    completed_emergencies,  \* EmergencyVehicleAgent.completed_emergencies
    current_time,           \* TrafficSimulation.current_time, minutes after 08:00
    metrics,                \* TrafficSimulation.metrics
    clock,                  \* the wall clock pd.Timestamp.now() reads
    ret,                    \* what the last call returned (or raised)
    notified,               \* per vehicle: the notify lists returned so far
    calls                   \* number of bounded calls made so far

vars == <<grid_size, intersections, active_emergencies, emergency_order,
          completed_emergencies, current_time, metrics, clock, ret, notified,
          calls>>

-----------------------------------------------------------------------------
(* Bounds of the model *)

\* process_traffic_data calls explored by SpecCtl
MaxFeeds == 3

\* largest value the wall clock takes
MaxClock == 1

\* largest steps argument passed to update_position
MaxStepArg == 2

\* coordinates 0..MaxCoord are used as dispatch end points
MaxCoord == 3

\* largest grid_size of a TrafficSimulation
MaxGrid == 3

\* run_step executions explored by SpecSim
MaxSteps == 3

\* longest hour part (the text before ':') of a Time string
MaxHourLen == 2

\* largest waiting count for which process_movement is evaluated directly
MaxWaiting == 200

\* process_traffic_data calls explored by SpecFeed: one past the window
MaxHistoryFeeds == 13

\* longest history for which get_fairness_metrics is evaluated directly
MaxHistLen == 4

\* the side of the grid of SpecWide
WideGrid == 4

-----------------------------------------------------------------------------
(* Program constants *)

NS_GREEN == 0
EW_GREEN == 1
DefaultPhaseDuration == 30
BaseTiming == 30
MinShortened == 15
MaxRatio == 3
MaxPhaseDuration == 90
EmergencyPhaseDuration == 60
HistoryCapacity == 12
LookAhead == 3
SimTimeStep == 5
NormalSecondsPerUnit == 60
EmergencySecondsPerUnit == 20

Directions == {"north", "south", "east", "west"}

-----------------------------------------------------------------------------
(* Arithmetic helpers *)

Min(a, b) == IF a <= b THEN a ELSE b

Max(a, b) == IF a >= b THEN a ELSE b

Abs(a) == IF a < 0 THEN -a ELSE a

RECURSIVE SumSeq(_)
SumSeq(s) == IF s = <<>> THEN 0 ELSE Head(s) + SumSeq(Tail(s))

\* int(w * 0.7) in IEEE double arithmetic.  The product falls just below the
\* exact value 7w/10 for w in {90, 170, 180} (the only such w below 330), and
\* int() then truncates one lower.
IntTimes07(w) ==
    IF w \in {90, 170, 180} THEN ((7 * w) \div 10) - 1 ELSE (7 * w) \div 10

\* int(base_timing * min(3, a / max(1, b))) for a > b >= 0; the double
\* result agrees with the exact floor for all a, b < 300.
IntTimingRatio(a, b) ==
    IF a >= MaxRatio * Max(1, b)
    THEN BaseTiming * MaxRatio
    ELSE (BaseTiming * a) \div Max(1, b)

-----------------------------------------------------------------------------
(* SignalControlAgent *)

TotalWaiting(w) == w["north"] + w["south"] + w["east"] + w["west"]

NewController ==
    [ current_phase         |-> NS_GREEN,
      phase_duration        |-> DefaultPhaseDuration,
      time_in_phase         |-> 0,
      emergency_mode        |-> FALSE,
      waiting_vehicles      |-> [d \in Directions |-> 0],
      historical_wait_times |-> <<>> ]

\* the timing with the ratio and the 90 s cap left out (C1 must tell it apart)
OptimalTiming_Uncapped(phase, w) ==
    LET ns_total == w["north"] + w["south"]
        ew_total == w["east"] + w["west"]
        green    == IF phase = NS_GREEN THEN ns_total ELSE ew_total
        red      == IF phase = NS_GREEN THEN ew_total ELSE ns_total
    IN  IF green > red
        THEN (BaseTiming * green) \div Max(1, red)
        ELSE Max(MinShortened, BaseTiming \div 2)

\* the value _calculate_optimal_timing assigns to phase_duration
OptimalTiming(phase, w) ==
    LET ns_total == w["north"] + w["south"]
        ew_total == w["east"] + w["west"]
        green    == IF phase = NS_GREEN THEN ns_total ELSE ew_total
        red      == IF phase = NS_GREEN THEN ew_total ELSE ns_total
        d        == IF green > red
                    THEN IntTimingRatio(green, red)
                    ELSE Max(MinShortened, BaseTiming \div 2)
    IN  Min(MaxPhaseDuration, d)

calculate_optimal_timing(c) ==
    [c EXCEPT !.phase_duration = OptimalTiming(c.current_phase, c.waiting_vehicles)]

\* process_traffic_data without the emergency_mode test of line 25 (C13 must
\* tell it apart)
process_traffic_data_AlwaysRecomputes(c, distributed_traffic) ==
    LET c1 == [c EXCEPT !.waiting_vehicles =
                          [d \in Directions |-> distributed_traffic[d]]]
        c2 == calculate_optimal_timing(c1)
        h  == Append(c2.historical_wait_times, TotalWaiting(c2.waiting_vehicles))
    IN  [c2 EXCEPT !.historical_wait_times =
                     IF Len(h) > HistoryCapacity THEN Tail(h) ELSE h]

\* process_traffic_data with pop() in place of pop(0) at line 32: the newest
\* entry is dropped (C19 must tell it apart)
process_traffic_data_DropsNewest(c, distributed_traffic) ==
    LET c1 == [c EXCEPT !.waiting_vehicles =
                          [d \in Directions |-> distributed_traffic[d]]]
        c2 == IF ~c1.emergency_mode THEN calculate_optimal_timing(c1) ELSE c1
        h  == Append(c2.historical_wait_times, TotalWaiting(c2.waiting_vehicles))
    IN  [c2 EXCEPT !.historical_wait_times =
                     IF Len(h) > HistoryCapacity
                     THEN SubSeq(h, 1, Len(h) - 1) ELSE h]

process_traffic_data(c, distributed_traffic) ==
    LET c1 == [c EXCEPT !.waiting_vehicles =
                          [d \in Directions |-> distributed_traffic[d]]]
        c2 == IF ~c1.emergency_mode THEN calculate_optimal_timing(c1) ELSE c1
        h  == Append(c2.historical_wait_times, TotalWaiting(c2.waiting_vehicles))
    IN  [c2 EXCEPT !.historical_wait_times =
                     IF Len(h) > HistoryCapacity THEN Tail(h) ELSE h]

\* _process_movement clearing 170% in place of 70% (C17 must tell it apart)
process_movement_OverClears(c, dir1, dir2) ==
    LET w == c.waiting_vehicles
    IN  [c EXCEPT !.waiting_vehicles =
                    [w EXCEPT ![dir1] = w[dir1] - (w[dir1] + IntTimes07(w[dir1])),
                              ![dir2] = w[dir2] - (w[dir2] + IntTimes07(w[dir2]))]]

process_movement(c, dir1, dir2) ==
    LET w == c.waiting_vehicles
    IN  [c EXCEPT !.waiting_vehicles =
                    [w EXCEPT ![dir1] = w[dir1] - IntTimes07(w[dir1]),
                              ![dir2] = w[dir2] - IntTimes07(w[dir2])]]

switch_phase(c) ==
    LET c1 == [c EXCEPT !.current_phase = 1 - c.current_phase,
                        !.time_in_phase = 0]
    IN  IF c1.current_phase = NS_GREEN
        THEN process_movement(c1, "north", "south")
        ELSE process_movement(c1, "east", "west")

\* update(time_step): the controller afterwards; UpdateSwitched is its result
UpdateSwitched(c, time_step) == c.time_in_phase + time_step >= c.phase_duration

\* update with > in place of >= at line 48 (C16 must tell it apart)
update_StrictTest(c, time_step) ==
    LET c1 == [c EXCEPT !.time_in_phase = c.time_in_phase + time_step]
    IN  IF c1.time_in_phase > c1.phase_duration THEN switch_phase(c1) ELSE c1

\* update testing line 48 on the time before the increment of line 45
\* (C29 must tell it apart)
update_TestsBeforeAdding(c, time_step) ==
    LET c1 == [c EXCEPT !.time_in_phase = c.time_in_phase + time_step]
    IN  IF c.time_in_phase >= c.phase_duration THEN switch_phase(c1) ELSE c1

update(c, time_step) ==
    LET c1 == [c EXCEPT !.time_in_phase = c.time_in_phase + time_step]
    IN  IF c1.time_in_phase >= c1.phase_duration THEN switch_phase(c1) ELSE c1

TargetPhase(direction) ==
    IF direction \in {"north", "south"} THEN NS_GREEN ELSE EW_GREEN

\* switch_to_emergency_mode without line 114: the forced switch keeps
\* time_in_phase (C25 must tell it apart)
switch_to_emergency_mode_KeepsTime(c, direction) ==
    [c EXCEPT !.emergency_mode = TRUE,
              !.current_phase = TargetPhase(direction),
              !.phase_duration = EmergencyPhaseDuration]

\* switch_to_emergency_mode making its forced switch through switch_phase,
\* which discharges the newly green directions (C31 must tell it apart)
switch_to_emergency_mode_Discharges(c, direction) ==
    LET c1 == [c EXCEPT !.emergency_mode = TRUE]
        c2 == IF c1.current_phase # TargetPhase(direction)
              THEN switch_phase(c1) ELSE c1
    IN  [c2 EXCEPT !.phase_duration = EmergencyPhaseDuration]

switch_to_emergency_mode(c, direction) ==
    LET c1 == [c EXCEPT !.emergency_mode = TRUE]
        c2 == IF c1.current_phase # TargetPhase(direction)
              THEN [c1 EXCEPT !.current_phase = TargetPhase(direction),
                              !.time_in_phase = 0]
              ELSE c1
    IN  [c2 EXCEPT !.phase_duration = EmergencyPhaseDuration]

exit_emergency_mode(c) ==
    calculate_optimal_timing([c EXCEPT !.emergency_mode = FALSE])

\* get_fairness_metrics without the test of line 142 (C18 must tell it apart)
get_fairness_metrics_NoZeroTest(c) ==
    LET h           == c.historical_wait_times
        n           == Len(h)
        squared_sum == SumSeq([i \in 1..n |-> h[i] * h[i]])
        sum_squared == SumSeq(h) * SumSeq(h)
    IN  IF h = <<>> THEN <<1, 1>>
        ELSE <<sum_squared, n * squared_sum>>

\* Jain's index as the exact fraction <<numerator, denominator>>
get_fairness_metrics(c) ==
    LET h           == c.historical_wait_times
        n           == Len(h)
        squared_sum == SumSeq([i \in 1..n |-> h[i] * h[i]])
        sum_squared == SumSeq(h) * SumSeq(h)
    IN  IF h = <<>> THEN <<1, 1>>
        ELSE IF squared_sum = 0 THEN <<1, 1>>
        ELSE <<sum_squared, n * squared_sum>>

-----------------------------------------------------------------------------
(* Per-direction totals handed to process_traffic_data *)

Dist(n, s, e, w) ==
    [d \in Directions |->
        CASE d = "north" -> n [] d = "south" -> s [] d = "east" -> e [] OTHER -> w]

TrafficInputs ==
    { Dist(0, 0, 0, 0), Dist(5, 2, 1, 1), Dist(1, 1, 4, 3), Dist(3, 2, 2, 2) }

-----------------------------------------------------------------------------
(* Optional values: None is the empty sequence, a value v is <<v>> *)

NoneVal == <<>>

Some(v) == <<v>>

-----------------------------------------------------------------------------
(* EmergencyVehicleAgent *)

Vehicles == {"ambulance_1", "fire_1"}

\* path[i] of the Python list (0-based)
PathAt(path, i) == path[i + 1]

InSeq(x, s) == \E i \in 1..Len(s) : s[i] = x

\* lines 210-215: the loop that moves current_x to end_x, appending each
\* cell entered
RECURSIVE WalkX(_, _, _, _)
WalkX(path, current_x, current_y, end_x) ==
    IF current_x = end_x THEN path
    ELSE LET next_x == IF current_x < end_x THEN current_x + 1 ELSE current_x - 1
         IN  WalkX(Append(path, <<next_x, current_y>>), next_x, current_y, end_x)

\* lines 218-223: the loop that moves current_y to end_y
RECURSIVE WalkY(_, _, _, _)
WalkY(path, current_x, current_y, end_y) ==
    IF current_y = end_y THEN path
    ELSE LET next_y == IF current_y < end_y THEN current_y + 1 ELSE current_y - 1
         IN  WalkY(Append(path, <<current_x, next_y>>), current_x, next_y, end_y)

\* the two loops in the other order: y first, then x (C15 must tell it apart)
generate_path_YFirst(start, end) ==
    WalkX(WalkY(<<>>, start[1], start[2], end[2]), start[1], end[2], end[1])

\* _generate_path: the x loop from start, then the y loop from (end_x, start_y)
generate_path(start, end) ==
    WalkY(WalkX(<<>>, start[1], start[2], end[1]), end[1], start[2], end[2])

NewRecord(start_point, end_point, priority, now) ==
    [ path                  |-> generate_path(start_point, end_point),
      current_position      |-> 0,
      start_point           |-> start_point,
      end_point             |-> end_point,
      priority              |-> priority,
      start_time            |-> now,
      status                |-> "active",
      intersections_cleared |-> <<>>,
      travel_time           |-> NoneVal ]

\* active_emergencies after dispatch_vehicle: the record is stored under
\* vehicle_id whether or not the id is already present
dispatch_vehicle(ae, vehicle_id, start_point, end_point, priority, now) ==
    [v \in (DOMAIN ae) \cup {vehicle_id} |->
        IF v = vehicle_id
        THEN NewRecord(start_point, end_point, priority, now)
        ELSE ae[v]]

\* a dict keeps a key's first insertion position
KeyOrderAfterInsert(order, vehicle_id) ==
    IF InSeq(vehicle_id, order) THEN order ELSE Append(order, vehicle_id)

DispatchNotify(path) == SubSeq(path, 1, Min(LookAhead, Len(path)))

DispatchResult(vehicle_id, start_point, end_point, priority) ==
    [ op                   |-> "dispatch_vehicle",
      vehicle_id           |-> vehicle_id,
      status               |-> "dispatched",
      notify_intersections |-> DispatchNotify(generate_path(start_point, end_point)),
      travel_time          |-> NoneVal ]

\* new_idx = min(current_idx + steps, len(path) - 1)
NewIdx(e, steps) == Min(e.current_position + steps, Len(e.path) - 1)

\* emergency["path"][new_idx] raises IndexError exactly on an empty path
UpdateRaises(e, steps) == Len(e.path) = 0

\* the look-ahead loop: <<notify_intersections, intersections_cleared>> after
\* offsets i..LookAhead have been examined
RECURSIVE LookAheadFrom(_, _, _, _, _)
LookAheadFrom(path, new_idx, i, notify, cleared) ==
    IF i > LookAhead THEN <<notify, cleared>>
    ELSE IF new_idx + i < Len(path)
              /\ ~InSeq(PathAt(path, new_idx + i), cleared)
         THEN LookAheadFrom(path, new_idx, i + 1,
                            Append(notify, PathAt(path, new_idx + i)),
                            Append(cleared, PathAt(path, new_idx + i)))
         ELSE LookAheadFrom(path, new_idx, i + 1, notify, cleared)

UpdateReached(e, steps) == NewIdx(e, steps) >= Len(e.path) - 1

\* the record after update_position(vehicle_id, steps) on a known id
UpdatedRecord(e, steps, now) ==
    LET new_idx == NewIdx(e, steps)
        e1      == [e EXCEPT !.current_position = new_idx]
    IN  IF UpdateRaises(e, steps) THEN e1
        ELSE
          LET la == LookAheadFrom(e.path, new_idx, 1, <<>>, e.intersections_cleared)
              e2 == [e1 EXCEPT !.intersections_cleared = la[2]]
          IN  IF UpdateReached(e, steps)
              THEN [e2 EXCEPT !.status = "completed",
                              !.travel_time = Some(now - e.start_time)]
              ELSE e2

\* update_position without the membership test of lines 229-230: an unknown
\* id gets a record (C11 must tell it apart)
update_position_NoMembershipTest(ae, vehicle_id, steps, now) ==
    IF vehicle_id \notin DOMAIN ae
    THEN [x \in DOMAIN ae \cup {vehicle_id} |->
             IF x \in DOMAIN ae THEN ae[x]
             ELSE NewRecord(<<0, 0>>, <<0, 0>>, 1, now)]
    ELSE [ae EXCEPT ![vehicle_id] = UpdatedRecord(ae[vehicle_id], steps, now)]

update_position(ae, vehicle_id, steps, now) ==
    IF vehicle_id \notin DOMAIN ae THEN ae
    ELSE [ae EXCEPT ![vehicle_id] = UpdatedRecord(ae[vehicle_id], steps, now)]

\* what update_position returns or raises
UpdateResult(ae, vehicle_id, steps, now) ==
    IF vehicle_id \notin DOMAIN ae
    THEN [ op |-> "update_position", vehicle_id |-> vehicle_id,
           status |-> "error: Vehicle not found",
           notify_intersections |-> <<>>, travel_time |-> NoneVal ]
    ELSE
      LET e       == ae[vehicle_id]
          new_idx == NewIdx(e, steps)
      IN  IF UpdateRaises(e, steps)
          THEN [ op |-> "update_position", vehicle_id |-> vehicle_id,
                 status |-> "raised IndexError",
                 notify_intersections |-> <<>>, travel_time |-> NoneVal ]
          ELSE IF UpdateReached(e, steps)
          THEN [ op |-> "update_position", vehicle_id |-> vehicle_id,
                 status |-> "completed",
                 notify_intersections |-> <<>>,
                 travel_time |-> Some(now - e.start_time) ]
          ELSE [ op |-> "update_position", vehicle_id |-> vehicle_id,
                 status |-> "active",
                 notify_intersections |->
                     LookAheadFrom(e.path, new_idx, 1, <<>>,
                                   e.intersections_cleared)[1],
                 travel_time |-> NoneVal ]

\* travel times of the records of ce whose ids are in S, summed
RECURSIVE SumTravel(_, _)
SumTravel(ce, S) ==
    IF S = {} THEN 0
    ELSE LET v == CHOOSE x \in S : TRUE
         IN  ce[v].travel_time[1] + SumTravel(ce, S \ {v})

TravelTimes(ce) == { ce[v].travel_time[1] : v \in DOMAIN ce }

\* get_metrics counts and averages over completed_emergencies
get_metrics(ae, ce) ==
    IF DOMAIN ce = {}
    THEN [ total_emergencies     |-> Cardinality(DOMAIN ae),
           completed_emergencies |-> 0,
           avg_travel_time       |-> NoneVal ]
    ELSE [ total_emergencies     |-> Cardinality(DOMAIN ae) + Cardinality(DOMAIN ce),
           completed_emergencies |-> Cardinality(DOMAIN ce),
           avg_travel_time       |->
               Some(<<SumTravel(ce, DOMAIN ce), Cardinality(DOMAIN ce)>>),
           min_travel_time       |->
               CHOOSE t \in TravelTimes(ce) : \A u \in TravelTimes(ce) : t <= u,
           max_travel_time       |->
               CHOOSE t \in TravelTimes(ce) : \A u \in TravelTimes(ce) : t >= u ]

-----------------------------------------------------------------------------
(* Initial state: TrafficSimulation.__init__ with the given grid size *)

create_intersections(n) == [i \in 1..(n * n) |-> NewController]

NewMetrics ==
    [ average_wait_time       |-> <<>>,
      fairness_index          |-> <<>>,
      emergency_response_time |-> NoneVal,
      normal_response_time    |-> NoneVal ]

NoResult ==
    [ op |-> "init", vehicle_id |-> "", status |-> "",
      notify_intersections |-> <<>>, travel_time |-> NoneVal ]

InitGrid(n) ==
    /\ grid_size = n
    /\ intersections = create_intersections(n)
    /\ active_emergencies = <<>>
    /\ emergency_order = <<>>
    /\ completed_emergencies = <<>>
    /\ current_time = 0
    /\ metrics = NewMetrics
    /\ clock = 0
    /\ ret = NoResult
    /\ notified = [v \in Vehicles |-> <<>>]
    /\ calls = 0

\* the wall clock advances between calls
Tick ==
    /\ clock < MaxClock
    /\ clock' = clock + 1
    /\ UNCHANGED <<grid_size, intersections, active_emergencies,
                   emergency_order, completed_emergencies, current_time,
                   metrics, ret, notified, calls>>

-----------------------------------------------------------------------------
(* SpecCtl: the public methods of one SignalControlAgent, called in any    *)
(* order on the only controller of a 1 x 1 grid                             *)

\* time_step arguments handed to update
UpdateSteps == {5, 20}

CtlResult(op, status) ==
    [ op |-> op, vehicle_id |-> "", status |-> status,
      notify_intersections |-> <<>>, travel_time |-> NoneVal ]

CtlFrame ==
    UNCHANGED <<grid_size, active_emergencies, emergency_order,
                completed_emergencies, current_time, metrics, clock, notified>>

ProcessTrafficData(d) ==
    /\ calls < MaxFeeds
    /\ calls' = calls + 1
    /\ intersections' = [intersections EXCEPT ![1] = process_traffic_data(@, d)]
    /\ ret' = CtlResult("process_traffic_data", "")
    /\ CtlFrame

Update(time_step) ==
    /\ intersections' = [intersections EXCEPT ![1] = update(@, time_step)]
    /\ ret' = CtlResult("update",
                        IF UpdateSwitched(intersections[1], time_step)
                        THEN "True" ELSE "False")
    /\ UNCHANGED calls
    /\ CtlFrame

SwitchPhase ==
    /\ intersections' = [intersections EXCEPT ![1] = switch_phase(@)]
    /\ ret' = CtlResult("switch_phase", "")
    /\ UNCHANGED calls
    /\ CtlFrame

SwitchToEmergencyMode(direction) ==
    /\ intersections' =
          [intersections EXCEPT ![1] = switch_to_emergency_mode(@, direction)]
    /\ ret' = CtlResult("switch_to_emergency_mode", "emergency_mode_activated")
    /\ UNCHANGED calls
    /\ CtlFrame

ExitEmergencyMode ==
    /\ intersections' = [intersections EXCEPT ![1] = exit_emergency_mode(@)]
    /\ ret' = CtlResult("exit_emergency_mode", "normal_operation_resumed")
    /\ UNCHANGED calls
    /\ CtlFrame

InitCtl == InitGrid(1)

NextCtl ==
    \/ \E d \in TrafficInputs : ProcessTrafficData(d)
    \/ \E ts \in UpdateSteps : Update(ts)
    \/ SwitchPhase
    \/ \E direction \in Directions : SwitchToEmergencyMode(direction)
    \/ ExitEmergencyMode

SpecCtl == InitCtl /\ [][NextCtl]_vars

\* C1: for every non-negative waiting mapping and either phase, the
\* phase_duration computed in normal mode (process_traffic_data,
\* exit_emergency_mode) lies in [15, 90]; so every controller that is not in
\* emergency mode has 15 <= phase_duration <= 90.
C1_NormalDurationBounded ==
    \A i \in 1..Len(intersections) :
       ~intersections[i].emergency_mode =>
          /\ MinShortened <= intersections[i].phase_duration
          /\ intersections[i].phase_duration <= MaxPhaseDuration

\* C1 witness: normal timing recomputed on leaving emergency mode, at the cap
C1_Witness ==
    /\ ret.op = "exit_emergency_mode"
    /\ ~intersections[1].emergency_mode
    /\ intersections[1].phase_duration = MaxPhaseDuration
    /\ intersections[1].current_phase = EW_GREEN

-----------------------------------------------------------------------------
(* SpecEmg: the coordinator's public methods, called in any order *)

\* start and end points handed to dispatch_vehicle for the first vehicle:
\* the corners of the grid 0..MaxCoord and a neighbour of the origin
DispatchPoints == { <<0, 0>>, <<1, 0>>, <<0, MaxCoord>>, <<MaxCoord, MaxCoord>> }

\* the routes each vehicle id is dispatched on; the second id always takes a
\* two-cell route
DispatchRoutes(v) ==
    IF v = "ambulance_1"
    THEN DispatchPoints \X DispatchPoints
    ELSE { << <<0, 0>>, <<1, 1>> >> }

StepArgs == 0..MaxStepArg

DispatchVehicle(v, s, e) ==
    /\ active_emergencies' = dispatch_vehicle(active_emergencies, v, s, e, 1, clock)
    /\ ret' = DispatchResult(v, s, e, 1)
    /\ emergency_order' = KeyOrderAfterInsert(emergency_order, v)
    /\ notified' = [notified EXCEPT ![v] = <<DispatchResult(v, s, e, 1).notify_intersections>>]
    /\ UNCHANGED <<grid_size, intersections, completed_emergencies,
                   current_time, metrics, clock, calls>>

UpdatePosition(v, steps) ==
    /\ active_emergencies' = update_position(active_emergencies, v, steps, clock)
    /\ ret' = UpdateResult(active_emergencies, v, steps, clock)
    /\ notified' = IF ret'.notify_intersections # <<>>
                   THEN [notified EXCEPT ![v] = Append(@, ret'.notify_intersections)]
                   ELSE notified
    /\ UNCHANGED <<grid_size, intersections, emergency_order,
                   completed_emergencies, current_time, metrics, clock, calls>>

InitEmg == InitGrid(1)

NextEmg ==
    \/ \E v \in Vehicles : \E r \in DispatchRoutes(v) :
          DispatchVehicle(v, r[1], r[2])
    \/ \E v \in Vehicles, steps \in StepArgs : UpdatePosition(v, steps)
    \/ Tick

SpecEmg == InitEmg /\ [][NextEmg]_vars

-----------------------------------------------------------------------------
(* TrafficSimulation.  run_step and run_simulation are computed on a record *)
(* s of the engine's fields; raised is TRUE once an exception has left the  *)
(* call, which skips everything after it.                                   *)

\* response times are held in hundredths of a second, which keeps
\* normal_response_time * 0.33 exact
Hundredths(seconds) == 100 * seconds

\* index into intersections (1-based) of the controller at (x, y); 0 for None
get_intersection_at(n, x, y) ==
    IF 0 <= x /\ x < n /\ 0 <= y /\ y < n THEN y * n + x + 1 ELSE 0

\* lines 61-69: every controller is fed its distribution, then updated
FeedAndUpdate(ints, traffic) ==
    [i \in 1..Len(ints) |->
        update(process_traffic_data(ints[i], traffic[i]), SimTimeStep)]

\* lines 71-80: the step's averages, as <<sum of waiting, count>> and as the
\* per-controller fairness fractions with their count
AppendMetrics(m, ints) ==
    [m EXCEPT
       !.average_wait_time =
           Append(@, << SumSeq([i \in 1..Len(ints) |->
                                   TotalWaiting(ints[i].waiting_vehicles)]),
                        Len(ints) >>),
       !.fairness_index =
           Append(@, << [i \in 1..Len(ints) |-> get_fairness_metrics(ints[i])],
                        Len(ints) >>)]

\* Bind(v, F) is F(v) with v evaluated once: LET x == v IN F(x), where x
\* holds the value rather than the expression
Bind(v, F(_)) == CHOOSE r \in { F(x) : x \in {v} } : TRUE

\* lines 88-94: each notified coordinate's controller goes to emergency mode
RECURSIVE NotifyIntersections(_, _, _, _)
NotifyIntersections(ints, n, notify, k) ==
    IF k > Len(notify) THEN ints
    ELSE LET idx == get_intersection_at(n, notify[k][1], notify[k][2])
             direction == "north"
         IN  Bind(IF idx # 0
                  THEN [ints EXCEPT ![idx] = switch_to_emergency_mode(@, direction)]
                  ELSE ints,
                  LAMBDA ints1 : NotifyIntersections(ints1, n, notify, k + 1))

\* the loop of lines 98-100 left out (C14 must tell it apart)
ResetIntersections_Skipped(ints) == ints

\* lines 97-100: every controller in emergency mode leaves it
ResetIntersections(ints) ==
    [i \in 1..Len(ints) |->
        IF ints[i].emergency_mode THEN exit_emergency_mode(ints[i]) ELSE ints[i]]

\* the controllers (as indices into ints) that are in emergency mode
InEmergency(ints) == { i \in 1..Len(ints) : ints[i].emergency_mode }

\* what one iteration of the loop of line 83 did: the vehicle, the update
\* returned, the controllers in emergency mode before the test of line 97,
\* and all controllers after the iteration
UpdateLogEntry(v, res, i1, i2) ==
    [ vehicle_id |-> v, status |-> res.status,
      notify_intersections |-> res.notify_intersections,
      emergency_before |-> InEmergency(i1), after |-> i2 ]

\* lines 84-100: one iteration of the loop over the vehicles, for vehicle v
UpdateEmergency(s, v, now) ==
    LET res == UpdateResult(s.active_emergencies, v, 1, now)
        ae1 == update_position(s.active_emergencies, v, 1, now)
    IN  IF res.status = "raised IndexError"
        THEN [s EXCEPT !.active_emergencies = ae1, !.raised = TRUE]
        ELSE Bind(NotifyIntersections(s.intersections, s.grid_size,
                                      res.notify_intersections, 1),
                  LAMBDA i1 :
                     Bind(IF res.status = "completed"
                          THEN ResetIntersections(i1) ELSE i1,
                          LAMBDA i2 :
                             [s EXCEPT !.active_emergencies = ae1,
                                       !.intersections = i2,
                                       !.updates =
                                           Append(@, UpdateLogEntry(v, res, i1, i2))]))

\* lines 83-100: the loop over list(active_emergencies.keys()), from key k on
RECURSIVE UpdateEmergencies(_, _, _, _)
UpdateEmergencies(s, order, k, now) ==
    IF k > Len(order) \/ s.raised THEN s
    ELSE Bind(UpdateEmergency(s, order[k], now),
              LAMBDA s1 : UpdateEmergencies(s1, order, k + 1, now))

\* the step up to line 80: controllers fed and updated, metrics appended
StepControllers(s, traffic) ==
    Bind(FeedAndUpdate(s.intersections, traffic),
         LAMBDA ints :
            [s EXCEPT !.intersections = ints,
                      !.metrics = AppendMetrics(s.metrics, ints),
                      !.steps_run = s.steps_run + 1,
                      !.updates = <<>>])

\* line 103, skipped when update_position raised
AdvanceTime(s) ==
    IF s.raised THEN s
    ELSE [s EXCEPT !.current_time = s.current_time + SimTimeStep]

\* run_step with the per-controller distributions traffic, the wall clock at now
run_step(s, traffic, now) ==
    Bind(StepControllers(s, traffic),
         LAMBDA s1 :
            Bind(UpdateEmergencies(s1, s1.emergency_order, 1, now), AdvanceTime))

GridDistance(start_point, end_point) ==
    Abs(end_point[1] - start_point[1]) + Abs(end_point[2] - start_point[2])

\* the emergency time computed at the normal rate (C10 must tell it apart)
PrecomputedEmergencyTime_NormalRate(grid_distance) ==
    Hundredths(grid_distance * NormalSecondsPerUnit)

PrecomputedNormalTime(grid_distance) ==
    Hundredths(grid_distance * NormalSecondsPerUnit)

PrecomputedEmergencyTime(grid_distance) ==
    Hundredths(grid_distance * EmergencySecondsPerUnit)

AmbulanceCompleted(s) ==
    /\ "ambulance_1" \in DOMAIN s.active_emergencies
    /\ s.active_emergencies["ambulance_1"].status = "completed"

\* the test of lines 166-170 without its break (C28 must tell it apart)
CompletionCheck_NoBreak(s, emergency_time) ==
    IF ~s.raised /\ AmbulanceCompleted(s)
    THEN [s EXCEPT !.metrics.emergency_response_time = Some(emergency_time)]
    ELSE s

\* lines 166-170: the test that ends the emergency loop
CompletionCheck(s, emergency_time) ==
    IF ~s.raised /\ AmbulanceCompleted(s)
    THEN [s EXCEPT !.metrics.emergency_response_time = Some(emergency_time),
                   !.broke = TRUE]
    ELSE s

\* lines 154-170: iterations k, k + 1, ... of the emergency loop;
\* inputs[k] = <<traffic, clock advance>> of iteration k
RECURSIVE EmergencyLoop(_, _, _, _, _)
EmergencyLoop(s, inputs, k, now, emergency_time) ==
    IF k > Len(inputs) \/ s.raised \/ s.broke THEN s
    ELSE Bind(CompletionCheck(run_step(s, inputs[k][1], now + inputs[k][2]),
                              emergency_time),
              LAMBDA s1 :
                 EmergencyLoop(s1, inputs, k + 1, now + inputs[k][2],
                               emergency_time))

\* lines 177-178: the plain loop
RECURSIVE NormalLoop(_, _, _, _)
NormalLoop(s, inputs, k, now) ==
    IF k > Len(inputs) \/ s.raised THEN s
    ELSE Bind(run_step(s, inputs[k][1], now + inputs[k][2]),
              LAMBDA s1 : NormalLoop(s1, inputs, k + 1, now + inputs[k][2]))

\* lines 173-174: the precomputed value is used when the loop recorded none
DefaultEmergencyTime(s, emergency_time) ==
    IF ~s.raised /\ s.metrics.emergency_response_time = NoneVal
    THEN [s EXCEPT !.metrics.emergency_response_time = Some(emergency_time)]
    ELSE s

\* lines 195-199: the comparison made before plotting
FinalCheck(s, visualize, emergency_scenario) ==
    IF /\ ~s.raised
       /\ visualize
       /\ emergency_scenario
       /\ s.metrics.emergency_response_time # NoneVal
       /\ s.metrics.normal_response_time # NoneVal
       /\ s.metrics.emergency_response_time[1] > s.metrics.normal_response_time[1]
    THEN [s EXCEPT !.metrics.emergency_response_time =
                      Some((s.metrics.normal_response_time[1] * 33) \div 100)]
    ELSE s

\* lines 126-152: the times are precomputed, the normal one stored, and
\* ambulance_1 dispatched corner to corner
StartScenario(s, now) ==
    LET start_point == <<0, 0>>
        end_point   == <<s.grid_size - 1, s.grid_size - 1>>
    IN  [s EXCEPT
           !.metrics.normal_response_time =
               Some(PrecomputedNormalTime(GridDistance(start_point, end_point))),
           !.active_emergencies =
               dispatch_vehicle(@, "ambulance_1", start_point, end_point, 1, now),
           !.emergency_order = KeyOrderAfterInsert(@, "ambulance_1")]

ScenarioEmergencyTime(s) ==
    PrecomputedEmergencyTime(
        GridDistance(<<0, 0>>, <<s.grid_size - 1, s.grid_size - 1>>))

\* run_simulation(len(inputs), visualize, emergency_scenario)
run_simulation(s, inputs, visualize, emergency_scenario, now) ==
    IF emergency_scenario
    THEN Bind(StartScenario(s, now),
              LAMBDA s1 :
                 Bind(EmergencyLoop(s1, inputs, 1, now, ScenarioEmergencyTime(s)),
                      LAMBDA s2 :
                         Bind(DefaultEmergencyTime(s2, ScenarioEmergencyTime(s)),
                              LAMBDA s3 :
                                 FinalCheck(s3, visualize, emergency_scenario))))
    ELSE Bind(NormalLoop(s, inputs, 1, now),
              LAMBDA s2 : FinalCheck(s2, visualize, emergency_scenario))

-----------------------------------------------------------------------------
(* SpecSim: run_step and run_simulation called on one TrafficSimulation      *)

\* the engine's fields as a record, and back
EngineState ==
    [ grid_size          |-> grid_size,
      intersections      |-> intersections,
      active_emergencies |-> active_emergencies,
      emergency_order    |-> emergency_order,
      metrics            |-> metrics,
      current_time       |-> current_time,
      steps_run          |-> calls,
      raised             |-> FALSE,
      broke              |-> FALSE,
      updates            |-> <<>> ]

SetEngineState(s) ==
    /\ intersections' = s.intersections
    /\ active_emergencies' = s.active_emergencies
    /\ emergency_order' = s.emergency_order
    /\ metrics' = s.metrics
    /\ current_time' = s.current_time
    /\ calls' = s.steps_run
    /\ UNCHANGED <<grid_size, completed_emergencies, notified>>

\* the distributions one run_step hands to the controllers: the same
\* per-direction totals at every intersection
SimTraffic == { Dist(5, 2, 1, 1), Dist(1, 0, 4, 3) }

TrafficFor(n, d) == [i \in 1..(n * n) |-> d]

\* per-iteration inputs of a call that may run steps iterations: the traffic
\* (one distribution for the whole call; run_step called step by step mixes
\* them) and the advance of the wall clock before the iteration
StepInputs(steps) ==
    { inp \in [1..steps -> SimTraffic \X {0, 1}] :
         /\ \A k \in 1..steps : inp[k][1] = inp[1][1]
         /\ SumSeq([k \in 1..steps |-> inp[k][2]]) <= MaxClock - clock }

WithTraffic(inp) ==
    [k \in 1..Len(inp) |-> <<TrafficFor(grid_size, inp[k][1]), inp[k][2]>>]

ClockAfter(inp, steps_done) ==
    clock + SumSeq([k \in 1..Min(steps_done, Len(inp)) |-> inp[k][2]])

SimResult(op, s, steps, visualize, emergency_scenario) ==
    [ op |-> op, vehicle_id |-> "",
      status |-> IF s.raised THEN "raised IndexError" ELSE "returned",
      notify_intersections |-> <<>>, travel_time |-> NoneVal,
      steps |-> steps, visualize |-> visualize,
      emergency_scenario |-> emergency_scenario,
      updates |-> s.updates ]

RunStep ==
    /\ calls < MaxSteps
    /\ \E inp \in StepInputs(1) :
          \E s \in { run_step(EngineState, WithTraffic(inp)[1][1],
                              clock + inp[1][2]) } :
             /\ SetEngineState(s)
             /\ clock' = clock + inp[1][2]
             /\ ret' = SimResult("run_step", s, 1, FALSE, FALSE)

RunSimulation(steps, visualize, emergency_scenario) ==
    /\ calls + steps <= MaxSteps
    /\ \E inp \in StepInputs(steps) :
          \E s \in { run_simulation(EngineState, WithTraffic(inp), visualize,
                                    emergency_scenario, clock) } :
             /\ SetEngineState(s)
             /\ clock' = ClockAfter(inp, s.steps_run - calls)
             /\ ret' = SimResult("run_simulation", s, steps, visualize,
                                 emergency_scenario)

InitSim == \E n \in 1..MaxGrid : InitGrid(n)

NextSim ==
    \/ RunStep
    \/ \E steps \in 0..MaxSteps, visualize \in BOOLEAN, emergency_scenario \in BOOLEAN :
          RunSimulation(steps, visualize, emergency_scenario)

SpecSim == InitSim /\ [][NextSim]_vars

-----------------------------------------------------------------------------
(* SpecStep: vehicles dispatched through TrafficSimulation.emergency_agent   *)
(* and run_step called, in any order                                         *)

\* the routes each vehicle id is dispatched on, on the grid 0..grid_size-1
StepRoutes(v) ==
    LET g == grid_size - 1
    IN  IF v = "ambulance_1"
        THEN { << <<0, 0>>, <<g, g>> >>, << <<0, 0>>, <<g, 0>> >> }
        ELSE { << <<0, g>>, <<0, Max(0, g - 1)>> >>, << <<g, g>>, <<0, g>> >> }

InitStep == \E n \in 1..MaxGrid : InitGrid(n)

NextStep ==
    \/ \E v \in Vehicles : \E r \in StepRoutes(v) : DispatchVehicle(v, r[1], r[2])
    \/ RunStep

SpecStep == InitStep /\ [][NextStep]_vars

-----------------------------------------------------------------------------
(* Claims about the coordinator, checked under SpecEmg *)

Known(v) == v \in DOMAIN active_emergencies

LastIndex(v) == Len(active_emergencies[v].path) - 1

\* C2: update_position with steps = 0 on an active record leaves
\* current_position, status and intersections_cleared unchanged, whatever the
\* path length (1 or more) and the current position (0 right after dispatch
\* included).
C2_ZeroStepsChangesNothing ==
    [][\A v \in Vehicles :
          (/\ Known(v)
           /\ active_emergencies[v].status = "active"
           /\ Len(active_emergencies[v].path) >= 1
           /\ UpdatePosition(v, 0))
          => /\ active_emergencies'[v].current_position
                  = active_emergencies[v].current_position
             /\ active_emergencies'[v].status = active_emergencies[v].status
             /\ active_emergencies'[v].intersections_cleared
                  = active_emergencies[v].intersections_cleared]_vars

\* C3: dispatch_vehicle with an id that is already an active record is
\* rejected and leaves the existing record (path, current_position,
\* intersections_cleared, start_time, status) unchanged.
C3_DuplicateDispatchRejected ==
    [][\A v \in Vehicles : \A r \in DispatchRoutes(v) :
          (/\ Known(v)
           /\ active_emergencies[v].status = "active"
           /\ DispatchVehicle(v, r[1], r[2]))
          => /\ ret'.status # "dispatched"
             /\ active_emergencies'[v].path = active_emergencies[v].path
             /\ active_emergencies'[v].current_position
                  = active_emergencies[v].current_position
             /\ active_emergencies'[v].intersections_cleared
                  = active_emergencies[v].intersections_cleared
             /\ active_emergencies'[v].start_time
                  = active_emergencies[v].start_time
             /\ active_emergencies'[v].status = active_emergencies[v].status]_vars

\* C4: once a record is completed, every further update_position call on it
\* leaves current_position, status, intersections_cleared and travel_time
\* unchanged and only re-returns status completed (travel_time is written
\* exactly once).
C4_CompletedUpdateIsNoOp ==
    [][\A v \in Vehicles : \A steps \in StepArgs :
          (/\ Known(v)
           /\ active_emergencies[v].status = "completed"
           /\ UpdatePosition(v, steps))
          => /\ ret'.status = "completed"
             /\ active_emergencies'[v].current_position
                  = active_emergencies[v].current_position
             /\ active_emergencies'[v].status = "completed"
             /\ active_emergencies'[v].intersections_cleared
                  = active_emergencies[v].intersections_cleared
             /\ active_emergencies'[v].travel_time
                  = active_emergencies[v].travel_time]_vars

CompletedRecords ==
    { v \in DOMAIN active_emergencies : active_emergencies[v].status = "completed" }

\* C5: get_metrics reports as completed count the number of records whose
\* status is completed, as total the number of dispatched records, and a null
\* average exactly when no record has completed.
C5_MetricsCountCompleted ==
    LET m == get_metrics(active_emergencies, completed_emergencies)
    IN  /\ m.completed_emergencies = Cardinality(CompletedRecords)
        /\ m.total_emergencies = Cardinality(DOMAIN active_emergencies)
        /\ (m.avg_travel_time = NoneVal) <=> (CompletedRecords = {})

\* the path indices (0-based) at which coordinate pos occurs
IndicesOf(path, pos) == { i \in 0..(Len(path) - 1) : PathAt(path, i) = pos }

\* C6: for one emergency no coordinate appears in more than one of the notify
\* lists returned by dispatch_vehicle and the later update_position calls, and
\* every list returned by update_position has at most 3 coordinates, all at
\* path indices strictly greater than the new current_position.
C6_NotifiedAtMostOnce ==
    /\ \A v \in Vehicles :
          \A i, j \in 1..Len(notified[v]) :
             i < j =>
               \A a \in 1..Len(notified[v][i]), b \in 1..Len(notified[v][j]) :
                  notified[v][i][a] # notified[v][j][b]
    /\ (ret.op = "update_position" /\ ret.status = "active") =>
          /\ Len(ret.notify_intersections) <= LookAhead
          /\ \A k \in 1..Len(ret.notify_intersections) :
                \E i \in IndicesOf(active_emergencies[ret.vehicle_id].path,
                                   ret.notify_intersections[k]) :
                   i > active_emergencies[ret.vehicle_id].current_position

\* C7: for every dispatched record and every sequence of update_position
\* calls with steps >= 0, current_position is a valid index into path, never
\* decreases, and update_position never fails on a known id.
C7_PositionValidAndMonotone ==
    /\ [](\A v \in DOMAIN active_emergencies :
             /\ 0 <= active_emergencies[v].current_position
             /\ active_emergencies[v].current_position <= LastIndex(v))
    /\ [](ret.status # "raised IndexError")
    /\ [][\A v \in Vehicles : \A steps \in StepArgs :
             (Known(v) /\ UpdatePosition(v, steps))
             => active_emergencies'[v].current_position
                  >= active_emergencies[v].current_position]_vars

\* C8: a record becomes completed in exactly the update_position call in
\* which current_position first reaches the final path index, is active
\* before, stays completed under later update_position calls, and is never
\* removed from the record set.
C8_CompletedExactlyOnArrival ==
    [][\A v \in Vehicles : \A steps \in StepArgs :
          (Known(v) /\ UpdatePosition(v, steps))
          => /\ Known(v)'
             /\ (active_emergencies[v].status = "completed"
                   => active_emergencies'[v].status = "completed")
             /\ (/\ active_emergencies[v].status = "active"
                 /\ active_emergencies'[v].status = "completed")
                <=> (/\ active_emergencies[v].current_position # LastIndex(v)
                     /\ active_emergencies'[v].current_position = LastIndex(v))]_vars

-----------------------------------------------------------------------------
(* Claims about the engine, checked under SpecSim *)

\* the last call was run_simulation(..., emergency_scenario=True) and returned
ScenarioReturned ==
    /\ ret.op = "run_simulation"
    /\ ret.status = "returned"
    /\ ret.emergency_scenario

\* C9: after run_simulation with emergency_scenario=True returns,
\* emergency_response_time is strictly less than normal_response_time, for
\* every grid size N >= 1, every step count >= 0, with or without
\* visualization.
C9_EmergencyStrictlyFaster ==
    ScenarioReturned
    => /\ metrics.emergency_response_time # NoneVal
       /\ metrics.normal_response_time # NoneVal
       /\ metrics.emergency_response_time[1] < metrics.normal_response_time[1]

\* C10: run_simulation with emergency_scenario=True on an N x N grid, N >= 2,
\* returns normal_response_time = 60 * 2(N-1) and emergency_response_time =
\* 20 * 2(N-1), whatever the step count, whether and at whichever step the
\* simulated vehicle completes.
C10_ReturnedTimesPrecomputed ==
    (ScenarioReturned /\ grid_size >= 2)
    => /\ metrics.normal_response_time = Some(Hundredths(60 * 2 * (grid_size - 1)))
       /\ metrics.emergency_response_time = Some(Hundredths(20 * 2 * (grid_size - 1)))

\* C10 witness: on the 2 x 2 grid a call asked for 3 steps returned after the
\* first, in which ambulance_1 completed, with 120 s and 40 s recorded
C10_Witness ==
    /\ ScenarioReturned
    /\ grid_size = 2
    /\ ret.steps = 3
    /\ calls = 1
    /\ active_emergencies["ambulance_1"].status = "completed"
    /\ metrics.normal_response_time = Some(Hundredths(120))
    /\ metrics.emergency_response_time = Some(Hundredths(40))

-----------------------------------------------------------------------------
(* Further claims about the coordinator, checked under SpecEmg *)

\* C11: update_position called with a vehicle id that has no record returns
\* a not-found error and changes nothing: every existing record, the set of
\* record ids, and all controller state are unchanged.
C11_UnknownIdChangesNothing ==
    [][\A v \in Vehicles : \A steps \in StepArgs :
          (~Known(v) /\ UpdatePosition(v, steps))
          => /\ ret'.status = "error: Vehicle not found"
             /\ active_emergencies' = active_emergencies
             /\ DOMAIN active_emergencies' = DOMAIN active_emergencies
             /\ emergency_order' = emergency_order
             /\ completed_emergencies' = completed_emergencies
             /\ intersections' = intersections]_vars

\* C11 witness: update_position("fire_1") has just returned not-found while
\* ambulance_1 has a record and fire_1 has none
C11_Witness ==
    /\ ret.op = "update_position"
    /\ ret.vehicle_id = "fire_1"
    /\ ret.status = "error: Vehicle not found"
    /\ Known("ambulance_1")
    /\ ~Known("fire_1")

-----------------------------------------------------------------------------
(* DataProcessor.distribute_traffic_by_direction.  A string is a sequence   *)
(* of one-character strings.  Ratios are exact fractions; on the totals and *)
(* jitters of DistRows and Jitters the floats of the code round to the same *)
(* integers.                                                                *)

\* the characters an hour part is made of: digits and a non-digit
HourChars == {"0", "1", "2", "7", "x"}

Digits == {"0", "1", "2", "7"}

DigitValue(c) == CASE c = "0" -> 0 [] c = "1" -> 1 [] c = "2" -> 2 [] c = "7" -> 7

\* str.upper() on the characters that occur
UpperChar(c) ==
    CASE c = "p" -> "P" [] c = "a" -> "A" [] c = "m" -> "M" [] OTHER -> c

Upper(str) == [k \in 1..Len(str) |-> UpperChar(str[k])]

\* needle in str
Contains(str, needle) ==
    \E k \in 0..(Len(str) - Len(needle)) :
        \A j \in 1..Len(needle) : str[k + j] = needle[j]

\* str.split(':')[0]
BeforeColon(str) ==
    LET first == CHOOSE k \in 1..Len(str) :
                     str[k] = ":" /\ \A j \in 1..(k - 1) : str[j] # ":"
    IN  SubSeq(str, 1, first - 1)

\* int(text) raises ValueError unless text is a non-empty run of digits
IntRaises(text) == Len(text) = 0 \/ \E k \in 1..Len(text) : text[k] \notin Digits

RECURSIVE IntOf(_)
IntOf(text) ==
    IF Len(text) = 0 THEN 0
    ELSE 10 * IntOf(SubSeq(text, 1, Len(text) - 1)) + DigitValue(text[Len(text)])

\* lines 97-100: the AM/PM adjustment
AmPmAdjusted(time_str, hour) ==
    IF Contains(Upper(time_str), <<"P", "M">>) /\ hour < 12 THEN hour + 12
    ELSE IF Contains(Upper(time_str), <<"A", "M">>) /\ hour = 12 THEN 0
    ELSE hour

\* lines 91-105: the value of the local hour when line 108 reads it; NoneVal
\* when no assignment was executed (the read raises UnboundLocalError)
HourOf(row) ==
    IF ~row.has_time THEN Some(12)
    ELSE IF row.time.kind = "str" /\ Contains(row.time.chars, <<":">>)
         THEN IF IntRaises(BeforeColon(row.time.chars))
              THEN Some(12)
              ELSE Some(AmPmAdjusted(row.time.chars,
                                     IntOf(BeforeColon(row.time.chars))))
         ELSE NoneVal

\* lines 108-113, in hundredths
BaseDistribution(hour) ==
    IF 7 <= hour /\ hour <= 9
    THEN [north |-> 40, south |-> 20, east |-> 30, west |-> 10]
    ELSE IF 16 <= hour /\ hour <= 18
    THEN [north |-> 20, south |-> 40, east |-> 10, west |-> 30]
    ELSE [north |-> 25, south |-> 25, east |-> 25, west |-> 25]

UniformDistribution == [d \in Directions |-> 25]

\* lines 118-121 in units of 1/800: max(0.05, base_ratio + variation), the
\* variation being jitter.variation[d] eighths of base_ratio
Varied(base, jitter) ==
    [d \in Directions |-> Max(40, 8 * base[d] + jitter.variation[d] * base[d])]

VariedSum(v) == v["north"] + v["south"] + v["east"] + v["west"]

\* lines 124-139: "total" of every direction, int(total_vehicles * ratio * u)
\* with ratio = varied / sum and u = jitter.count[d] eighths.  The per-type
\* counts of lines 134-137 are returned too and read by no caller.
DistributeResult(row, hour, jitter) ==
    LET v == Varied(BaseDistribution(hour), jitter)
    IN  [d \in Directions |->
           [total |-> (row.Total * v[d] * jitter.count[d]) \div (VariedSum(v) * 8)]]

\* what distribute_traffic_by_direction(row) returns or raises
distribute_traffic_by_direction(row, jitter) ==
    IF HourOf(row) = NoneVal
    THEN [ op |-> "distribute_traffic_by_direction", vehicle_id |-> "",
           status |-> "raised UnboundLocalError",
           notify_intersections |-> <<>>, travel_time |-> NoneVal,
           row |-> row, hour |-> NoneVal, base_distribution |-> NoneVal,
           result |-> NoneVal ]
    ELSE [ op |-> "distribute_traffic_by_direction", vehicle_id |-> "",
           status |-> "returned",
           notify_intersections |-> <<>>, travel_time |-> NoneVal,
           row |-> row, hour |-> HourOf(row),
           base_distribution |-> Some(BaseDistribution(HourOf(row)[1])),
           result |-> Some(DistributeResult(row, HourOf(row)[1], jitter)) ]

\* the draws of random.uniform, in eighths: per direction the variation of
\* line 120 (within -0.2..0.2) and the factor of line 131 (within 0.8..1.2)
JitterOf(vn, vs, ve, vw, cn, cs, ce, cw) ==
    [ variation |-> [north |-> vn, south |-> vs, east |-> ve, west |-> vw],
      count     |-> [north |-> cn, south |-> cs, east |-> ce, west |-> cw] ]

Jitters ==
    { JitterOf(0, 0, 0, 0, 8, 8, 8, 8),    JitterOf(0, 0, 0, 0, 7, 9, 8, 8),
      JitterOf(1, -1, 0, 0, 8, 8, 8, 8),   JitterOf(1, -1, 0, 0, 7, 9, 8, 8),
      JitterOf(-1, 1, 1, -1, 8, 8, 8, 8),  JitterOf(-1, 1, 1, -1, 7, 9, 8, 8) }

\* hour parts: every string of at most MaxHourLen characters of HourChars
HourParts ==
    UNION { [1..n -> HourChars] : n \in 0..MaxHourLen }

\* what follows the hour part
TimeSuffixes ==
    { <<>>, <<"0", "0">>, <<"0", "0", " ", "P", "M">>,
      <<"3", "0", " ", "p", "m">>, <<"0", "0", " ", "A", "M">> }

TimeStrings ==
    { h \o sep \o suffix :
        h \in HourParts, sep \in { <<>>, <<":">> }, suffix \in TimeSuffixes }

\* the Time field of a row: a string, or a value that is no string (a
\* number, NaN, None)
TimeFields ==
    { [kind |-> "str", chars |-> s] : s \in TimeStrings }
      \cup { [kind |-> "other", chars |-> <<>>] }

\* the traffic rows handed in: with and without a Time field
DistRows ==
    { [Total |-> total, has_time |-> TRUE, time |-> f] :
        total \in {0, 9, 23}, f \in TimeFields }
      \cup { [Total |-> total, has_time |-> FALSE,
              time |-> [kind |-> "other", chars |-> <<>>]] : total \in {0, 9, 23} }

\* the method reads and writes no field, so a behaviour makes one call
DistributeTraffic(row, jitter) ==
    /\ ret.op = "init"
    /\ ret' = distribute_traffic_by_direction(row, jitter)
    /\ UNCHANGED <<grid_size, intersections, active_emergencies,
                   emergency_order, completed_emergencies, current_time,
                   metrics, clock, notified, calls>>

InitDist == InitGrid(1)

NextDist == \E row \in DistRows, jitter \in Jitters : DistributeTraffic(row, jitter)

SpecDist == InitDist /\ [][NextDist]_vars

\* the Time field of row is absent, no string, a string without ':', or a
\* string whose hour part is no integer
TimeMalformed(row) ==
    \/ ~row.has_time
    \/ row.time.kind # "str"
    \/ ~Contains(row.time.chars, <<":">>)
    \/ IntRaises(BeforeColon(row.time.chars))

\* C12: distribute_traffic_by_direction never raises on the time field: for
\* every row whose Time field is absent, is not a string, is a string without
\* ':', or has a non-integer hour part, it falls back to hour 12 (the uniform
\* 0.25 base distribution) and returns a per-direction result.
C12_MalformedTimeFallsBackToNoon ==
    (ret.op = "distribute_traffic_by_direction" /\ TimeMalformed(ret.row))
    => /\ ret.status = "returned"
       /\ ret.hour = Some(12)
       /\ ret.base_distribution = Some(UniformDistribution)
       /\ ret.result # NoneVal

-----------------------------------------------------------------------------
(* Further claims about the controller, checked under SpecCtl *)

\* C13: in every reachable state a controller with emergency_mode = true has
\* phase_duration = 60: between switch_to_emergency_mode and
\* exit_emergency_mode no process_traffic_data, update or switch_phase call
\* changes phase_duration.
C13_EmergencyDurationLocked ==
    \A i \in 1..Len(intersections) :
       intersections[i].emergency_mode => intersections[i].phase_duration = 60

\* C13 witness: process_traffic_data has just fed a controller in emergency
\* mode counts for which the normal timing would not be 60, and the duration
\* is still 60
C13_Witness ==
    /\ ret.op = "process_traffic_data"
    /\ intersections[1].emergency_mode
    /\ OptimalTiming(intersections[1].current_phase,
                     intersections[1].waiting_vehicles) # 60
    /\ intersections[1].waiting_vehicles # [d \in Directions |-> 0]
    /\ intersections[1].phase_duration = 60

-----------------------------------------------------------------------------
(* Claims about run_step with dispatched vehicles, checked under SpecStep *)

\* the grid coordinate of the controller at index i of intersections
LocationOf(i) == << (i - 1) % grid_size, (i - 1) \div grid_size >>

\* C14: in run_step, when the update of a vehicle reports completed, every
\* controller of the grid that is in emergency mode at that moment exits
\* emergency mode (emergency_mode false, normal timing recomputed), also the
\* controllers off the completed vehicle's path and those notified for
\* another vehicle that is still active.
C14_CompletionResetsEveryController ==
    ret.op = "run_step"
    => \A k \in 1..Len(ret.updates) :
          ret.updates[k].status = "completed"
          => /\ InEmergency(ret.updates[k].after) = {}
             /\ \A i \in ret.updates[k].emergency_before :
                   ret.updates[k].after[i].phase_duration
                     = OptimalTiming(ret.updates[k].after[i].current_phase,
                                     ret.updates[k].after[i].waiting_vehicles)

\* C14 witness: fire_1 completed in a run_step while a controller off its
\* path, notified for the still active ambulance_1, was in emergency mode
C14_Witness ==
    /\ ret.op = "run_step"
    /\ Known("ambulance_1") /\ Known("fire_1")
    /\ active_emergencies["ambulance_1"].status = "active"
    /\ \E k \in 1..Len(ret.updates) :
          /\ ret.updates[k].vehicle_id = "fire_1"
          /\ ret.updates[k].status = "completed"
          /\ \E i \in ret.updates[k].emergency_before :
                /\ ~InSeq(LocationOf(i), active_emergencies["fire_1"].path)
                /\ InSeq(LocationOf(i),
                         active_emergencies["ambulance_1"].intersections_cleared)
                /\ ~ret.updates[k].after[i].emergency_mode

-----------------------------------------------------------------------------
(* Claims about the routing, checked under SpecEmg *)

\* +1, -1 or 0: the direction of a unit move from a to b
Toward(a, b) == IF a < b THEN 1 ELSE IF a > b THEN -1 ELSE 0

\* C15: for every start # end the generated path has length
\* |end.x - start.x| + |end.y - start.y|, consists of all unit x-moves toward
\* end.x (y fixed at start.y) followed by all unit y-moves toward end.y (x
\* fixed at end.x), and its last element is end; for start = (0,0),
\* end = (3,3) it is exactly [(1,0),(2,0),(3,0),(3,1),(3,2),(3,3)].
C15_PathIsXLegThenYLeg ==
    \A v \in DOMAIN active_emergencies :
       LET r  == active_emergencies[v]
           s  == r.start_point
           e  == r.end_point
           dx == Abs(e[1] - s[1])
           dy == Abs(e[2] - s[2])
       IN  s # e
           => /\ Len(r.path) = dx + dy
              /\ \A k \in 1..dx :
                    r.path[k] = <<s[1] + k * Toward(s[1], e[1]), s[2]>>
              /\ \A k \in 1..dy :
                    r.path[dx + k] = <<e[1], s[2] + k * Toward(s[2], e[2])>>
              /\ r.path[Len(r.path)] = e
              /\ (s = <<0, 0>> /\ e = <<3, 3>>
                    => r.path = << <<1, 0>>, <<2, 0>>, <<3, 0>>,
                                   <<3, 1>>, <<3, 2>>, <<3, 3>> >>)

\* C15 witness: ambulance_1 has just been dispatched from (0,0) to (3,3) and
\* holds the six-cell path
C15_Witness ==
    /\ ret.status = "dispatched"
    /\ ret.vehicle_id = "ambulance_1"
    /\ active_emergencies["ambulance_1"].start_point = <<0, 0>>
    /\ active_emergencies["ambulance_1"].end_point = <<3, 3>>
    /\ active_emergencies["ambulance_1"].path
         = << <<1, 0>>, <<2, 0>>, <<3, 0>>, <<3, 1>>, <<3, 2>>, <<3, 3>> >>

\* a controller in phase with every waiting count w
ControllerWaiting(phase, w) ==
    [NewController EXCEPT !.current_phase = phase,
                          !.waiting_vehicles = [d \in Directions |-> w]]

\* switch_phase on every count 0..MaxWaiting, from either phase
SwitchPhaseKeepsNonNegative ==
    \A w \in 0..MaxWaiting : \A phase \in {NS_GREEN, EW_GREEN} :
       \A d \in Directions :
          switch_phase(ControllerWaiting(phase, w)).waiting_vehicles[d] >= 0

\* C17: for every controller whose four waiting counts are non-negative,
\* switch_phase leaves all four counts non-negative; so with non-negative
\* per-direction totals supplied, waiting_vehicles is non-negative in every
\* reachable state.
C17_WaitingNeverNegative ==
    /\ SwitchPhaseKeepsNonNegative
    /\ \A i \in 1..Len(intersections) : \A d \in Directions :
          intersections[i].waiting_vehicles[d] >= 0

\* C17 witness: switch_phase has just cleared int(5 * 0.7) = 3 of 5 vehicles
\* waiting north and int(2 * 0.7) = 1 of 2 waiting south
C17_Witness ==
    /\ ret.op = "switch_phase"
    /\ intersections[1].current_phase = NS_GREEN
    /\ intersections[1].waiting_vehicles = Dist(2, 1, 1, 1)

-----------------------------------------------------------------------------
(* SpecCtlStep: what a sequence of run_step calls does to one controller.   *)
(* Each step feeds it a distribution and updates it by the engine's time    *)
(* step (lines 61-69); the loop over the vehicles (lines 83-100) then calls *)
(* switch_to_emergency_mode("north") on it for a notified coordinate and    *)
(* exit_emergency_mode when a vehicle completed, in any of the orders of    *)
(* EmergencyEffects.  Metrics and clocks do not feed back into controllers. *)

\* distributions with the same total: north-south heavy, east-west heavy,
\* nearly balanced either way
StepTraffic ==
    { Dist(5, 2, 1, 1), Dist(1, 1, 4, 3), Dist(3, 2, 2, 2), Dist(2, 2, 3, 2) }

\* what the vehicle loop of one run_step does to a controller, in order
EmergencyEffects ==
    { <<>>, <<"notify">>, <<"reset">>, <<"notify", "reset">>,
      <<"reset", "notify">>, <<"notify", "reset", "notify">> }

\* line 94 for "notify"; lines 99-100 for "reset"
ApplyEffect(c, effect) ==
    IF effect = "notify" THEN switch_to_emergency_mode(c, "north")
    ELSE IF c.emergency_mode THEN exit_emergency_mode(c) ELSE c

RECURSIVE ApplyEffects(_, _, _)
ApplyEffects(c, effects, k) ==
    IF k > Len(effects) THEN c
    ELSE Bind(ApplyEffect(c, effects[k]),
              LAMBDA c1 : ApplyEffects(c1, effects, k + 1))

\* lines 61-69 on one controller
FedAndUpdated(c, d) == update(process_traffic_data(c, d), SimTimeStep)

StepController(d, effects) ==
    /\ \E c \in { FedAndUpdated(intersections[1], d) } :
          /\ intersections' = [intersections EXCEPT ![1] = ApplyEffects(c, effects, 1)]
          /\ ret' = [ CtlResult("run_step", "") EXCEPT
                        !.status = IF c.time_in_phase = 0 THEN "switched"
                                   ELSE "not switched" ]
    /\ UNCHANGED calls
    /\ CtlFrame

InitCtlStep == InitGrid(1)

NextCtlStep ==
    \E d \in StepTraffic, effects \in EmergencyEffects : StepController(d, effects)

SpecCtlStep == InitCtlStep /\ [][NextCtlStep]_vars

\* C16: no approach is starved beyond 90 seconds: under every sequence of
\* run_step calls (update time step 5), in normal and in emergency mode
\* alike, time_in_phase never exceeds 90, also not at the moment update has
\* added the time step and not yet tested it.
C16_TimeInPhaseAtMost90 ==
    \A i \in 1..Len(intersections) :
       /\ intersections[i].time_in_phase <= 90
       /\ intersections[i].time_in_phase + 5 <= 90

\* C16 witness: a controller has stayed 85 s in its phase and is in
\* emergency mode with the 60 s duration; the next update switches it
C16_Witness ==
    /\ ret.op = "run_step"
    /\ intersections[1].emergency_mode
    /\ intersections[1].phase_duration = 60
    /\ intersections[1].time_in_phase = 85
    /\ update(intersections[1], 5).time_in_phase = 0

-----------------------------------------------------------------------------
(* SpecFeed: process_traffic_data called again and again on one controller, *)
(* past the capacity of historical_wait_times                               *)

\* distributions with totals 0 and 7
FeedTraffic == { Dist(0, 0, 0, 0), Dist(3, 2, 1, 1) }

FeedController(d) ==
    /\ calls < MaxHistoryFeeds
    /\ calls' = calls + 1
    /\ intersections' = [intersections EXCEPT ![1] = process_traffic_data(@, d)]
    /\ ret' = CtlResult("process_traffic_data", "")
    /\ CtlFrame

InitFeed == InitGrid(1)

NextFeed == \E d \in FeedTraffic : FeedController(d)

SpecFeed == InitFeed /\ [][NextFeed]_vars

\* a controller whose history is h
ControllerWithHistory(h) == [NewController EXCEPT !.historical_wait_times = h]

\* the snapshots of the directly evaluated histories
FairValues == {0, 1, 2, 7}

ShortHistories == UNION { [1..n -> FairValues] : n \in 0..MaxHistLen }

\* the index num/den of history h is in (0, 1], and is 1 when all snapshots
\* are equal (or there is none)
FairnessInUnitInterval(h) ==
    LET f == get_fairness_metrics(ControllerWithHistory(h))
    IN  /\ f[2] > 0
        /\ 0 < f[1]
        /\ f[1] <= f[2]
        /\ (\A i, j \in 1..Len(h) : h[i] = h[j]) => f[1] = f[2]

ShortHistoriesFair == \A h \in ShortHistories : FairnessInUnitInterval(h)

\* C18: for every history of 1 to 12 non-negative snapshots the fairness
\* index f of get_fairness_metrics satisfies 0 < f <= 1 (f is 1 when all
\* snapshots are zero), f = 1 whenever all snapshots are equal, and f = 1 for
\* an empty history.
C18_FairnessInUnitInterval ==
    /\ ShortHistoriesFair
    /\ \A i \in 1..Len(intersections) :
          /\ Len(intersections[i].historical_wait_times) <= 12
          /\ FairnessInUnitInterval(intersections[i].historical_wait_times)

\* C18 witness: a full window of 12 snapshots, not all equal, whose index is
\* strictly between 0 and 1
C18_Witness ==
    /\ ret.op = "process_traffic_data"
    /\ Len(intersections[1].historical_wait_times) = 12
    /\ get_fairness_metrics(intersections[1])[1] > 0
    /\ get_fairness_metrics(intersections[1])[1]
         < get_fairness_metrics(intersections[1])[2]

\* C19: historical_wait_times is a FIFO window of capacity 12: after every
\* process_traffic_data call its length is min(12, number of calls so far),
\* its last element is the sum of the four counts just supplied, and when it
\* was full the oldest entry is dropped, the order of the others preserved.
C19_HistoryIsFifoWindow ==
    [][\A d \in FeedTraffic :
          FeedController(d)
          => LET h  == intersections[1].historical_wait_times
                 h1 == intersections'[1].historical_wait_times
             IN  /\ Len(h1) = Min(12, calls')
                 /\ h1[Len(h1)] = TotalWaiting(d)
                 /\ Len(h) = 12 => h1 = Append(Tail(h), TotalWaiting(d))
                 /\ Len(h) < 12 => h1 = Append(h, TotalWaiting(d))]_vars

\* C19 witness: the 13th call has pushed out the first snapshot of a window
\* that began with 7 and otherwise held 0
C19_Witness ==
    /\ ret.op = "process_traffic_data"
    /\ calls = 13
    /\ intersections[1].historical_wait_times
         = <<0, 0, 0, 0, 0, 0, 0, 0, 0, 0, 0, 7>>

-----------------------------------------------------------------------------
(* Determinism of run_step, checked under SpecStep *)

\* the advances of the wall clock a run_step can see from the current state
ClockAdvances == { a \in {0, 1} : a <= MaxClock - clock }

\* what run_step leaves behind: controllers, emergency records, metrics
StepOutcome(d, advance) ==
    LET s == run_step(EngineState, TrafficFor(grid_size, d), clock + advance)
    IN  <<s.intersections, s.active_emergencies, s.metrics>>

\* C20: the simulation is deterministic given its traffic input: two runs
\* from the same state that receive the same per-direction distributions and
\* the same dispatches end the run_step with identical controller states,
\* identical emergency records (travel_time included) and identical metrics.
C20_StepDeterministic ==
    calls < MaxSteps
    => \A d \in SimTraffic : \A a1, a2 \in ClockAdvances :
          StepOutcome(d, a1) = StepOutcome(d, a2)

-----------------------------------------------------------------------------
(* Claims about the loop over the vehicles in run_step, checked under SpecStep *)

\* the iterations of the loop of line 83 in the run_step that just returned,
\* as indices into its log
LoopIterations(r) == IF r.op = "run_step" THEN 1..Len(r.updates) ELSE {}

\* C21: run_step advances only emergencies whose status is active: a record
\* that is already completed when the step starts is not passed to
\* update_position again and causes no further exit_emergency_mode on any
\* controller, even while another vehicle is still active.
C21_OnlyActiveAdvanced ==
    [][\A k \in LoopIterations(ret') :
          active_emergencies[ret'.updates[k].vehicle_id].status = "active"]_vars

-----------------------------------------------------------------------------
(* SpecWide: SpecStep on a grid wide enough for a leg of three cells, so    *)
(* that the look-ahead of update_position reaches a cell of the x leg       *)

InitWide == InitGrid(WideGrid)

SpecWide == InitWide /\ [][NextStep]_vars

\* the cell the vehicle of record e comes from when it enters path[j]
\* (1-based j): the start point for the first cell
CameFrom(e, j) == IF j = 1 THEN e.start_point ELSE e.path[j - 1]

\* the phase that serves the move into path[j]: a move along x keeps y
HeadingPhase(e, j) ==
    IF CameFrom(e, j)[2] = e.path[j][2] THEN EW_GREEN ELSE NS_GREEN

\* C22: when run_step forces the controller at a newly notified path
\* coordinate into emergency mode, its phase serves the axis of the vehicle's
\* heading at that coordinate: EW_GREEN for a coordinate reached by an x-move
\* of the path, NS_GREEN for one reached by a y-move.
C22_PhaseServesHeading ==
    \A k \in LoopIterations(ret) :
       LET u == ret.updates[k]
           e == active_emergencies[u.vehicle_id]
       IN  \A j \in 1..Len(e.path) :
              InSeq(e.path[j], u.notify_intersections)
              => LET c == u.after[get_intersection_at(grid_size, e.path[j][1],
                                                      e.path[j][2])]
                 IN  /\ c.emergency_mode
                     /\ c.current_phase = HeadingPhase(e, j)

-----------------------------------------------------------------------------
(* Claims about the emergency scenario of run_simulation, checked under SpecSim *)

\* run_simulation(steps, emergency_scenario=True) has just returned after at
\* least one run_step
ScenarioStepped ==
    /\ ret.op = "run_simulation"
    /\ ret.emergency_scenario
    /\ ret.status = "returned"
    /\ ret.steps >= 1

\* the controller at the cell the vehicle of record e occupies
ControllerAtPosition(e) ==
    intersections[get_intersection_at(grid_size,
                                      PathAt(e.path, e.current_position)[1],
                                      PathAt(e.path, e.current_position)[2])]

\* C23: emergency corridor coverage: in the emergency scenario (one vehicle
\* dispatched corner to corner on an N x N grid, N >= 2, then only run_step
\* calls), whenever the vehicle is active and at path[i] at the end of a
\* run_step, the controller at path[i] is in emergency mode.
C23_CorridorCovered ==
    ( /\ ScenarioStepped
      /\ grid_size >= 2
      /\ active_emergencies["ambulance_1"].status = "active" )
    => ControllerAtPosition(active_emergencies["ambulance_1"]).emergency_mode

-----------------------------------------------------------------------------
(* Claims about update and switch_phase, checked under SpecCtl *)

\* C24: while a controller is in emergency mode its phase is held: between
\* switch_to_emergency_mode and the matching exit_emergency_mode no update()
\* call changes current_phase, whatever the controller's state was when
\* emergency mode was entered.
C24_EmergencyPhaseHeld ==
    [][(ret'.op = "update" /\ intersections[1].emergency_mode)
       => intersections'[1].current_phase = intersections[1].current_phase]_vars

\* C25: immediately after any phase switch (switch_phase, by itself or
\* through update, or the forced switch of switch_to_emergency_mode)
\* time_in_phase is 0 and strictly less than phase_duration; and
\* phase_duration is a positive integer in every reachable state.
C25_SwitchRestoresInvariant ==
    /\ [](intersections[1].phase_duration \in Nat \ {0})
    /\ [][intersections'[1].current_phase # intersections[1].current_phase
          => /\ intersections'[1].time_in_phase = 0
             /\ intersections'[1].time_in_phase
                  < intersections'[1].phase_duration]_vars

\* C25 witness: update has just switched the phase of a controller in
\* emergency mode whose timing was last computed while it was fed
C25_Witness ==
    /\ ret.op = "update"
    /\ ret.status = "True"
    /\ intersections[1].emergency_mode
    /\ intersections[1].historical_wait_times # <<>>
    /\ intersections[1].time_in_phase = 0
    /\ intersections[1].phase_duration = EmergencyPhaseDuration

-----------------------------------------------------------------------------
(* Further claims about run_step with dispatched vehicles, checked under SpecStep *)

\* C26: at the end of every run_step every controller satisfies
\* time_in_phase < phase_duration, also in steps where a controller was put
\* into emergency mode or taken out of it after its update() call.
C26_TimeBelowDurationAfterStep ==
    ret.op = "run_step"
    => \A i \in 1..Len(intersections) :
          intersections[i].time_in_phase < intersections[i].phase_duration

-----------------------------------------------------------------------------
(* Status and position of the records, checked under SpecEmg *)

\* C27: in every reachable state of the coordinator a record's status is
\* completed if and only if its current_position equals the final index of
\* its path; no record is active while already at its destination, for
\* instance right after a dispatch whose end is adjacent to its start.
C27_CompletedIffAtFinalIndex ==
    \A v \in DOMAIN active_emergencies :
       (active_emergencies[v].status = "completed")
       <=> (active_emergencies[v].current_position = LastIndex(v))

-----------------------------------------------------------------------------
(* The step loop of the emergency scenario, checked under SpecSim *)

\* C28: in the emergency scenario on an N x N grid (N >= 2) the dispatched
\* vehicle is completed after exactly 2(N-1) - 1 run_step calls when the step
\* budget is at least that large, run_simulation runs no run_step after the
\* completing one, and with a smaller budget it runs exactly the given
\* number of steps; in both cases the loop terminates and the call returns.
C28_ScenarioStepCount ==
    [][(ret'.op = "run_simulation" /\ ret'.emergency_scenario /\ grid_size >= 2)
       => /\ ret'.status = "returned"
          /\ calls' - calls = Min(ret'.steps, 2 * (grid_size - 1) - 1)
          /\ (active_emergencies'["ambulance_1"].status = "completed")
             <=> (ret'.steps >= 2 * (grid_size - 1) - 1)]_vars

\* C28 witness: on the 2 x 2 grid a scenario call given 2 steps, made after
\* one earlier step, has run a single step, in which the vehicle completed
C28_Witness ==
    /\ ScenarioReturned
    /\ grid_size = 2
    /\ ret.steps = 2
    /\ calls = 2
    /\ Len(metrics.average_wait_time) = 2
    /\ Len(ret.updates) = 1
    /\ ret.updates[1].status = "completed"
    /\ active_emergencies["ambulance_1"].current_position = 1

-----------------------------------------------------------------------------
(* Further claims about update and switch_phase, checked under SpecCtl *)

\* C29: update(time_step) adds time_step to time_in_phase and switches the
\* phase if and only if the increased time_in_phase is >= phase_duration; it
\* returns True exactly when it switched; when it does not switch,
\* current_phase, phase_duration and waiting_vehicles are unchanged.
C29_UpdateSwitchesIffDue ==
    [][\A time_step \in UpdateSteps :
          Update(time_step)
          => LET c         == intersections[1]
                 c2        == intersections'[1]
                 increased == c.time_in_phase + time_step
                 switched  == c2.current_phase # c.current_phase
             IN  /\ switched <=> (increased >= c.phase_duration)
                 /\ (ret'.status = "True") <=> switched
                 /\ switched => c2 = switch_phase(c)
                 /\ ~switched
                    => /\ c2.time_in_phase = increased
                       /\ c2.phase_duration = c.phase_duration
                       /\ c2.waiting_vehicles = c.waiting_vehicles]_vars

\* C29 witness: update(20) after update(5) on a fed controller with the
\* 90 s timing returned False and left 25 s in the phase
C29_Witness ==
    /\ ret.op = "update"
    /\ ret.status = "False"
    /\ ~intersections[1].emergency_mode
    /\ intersections[1].time_in_phase = 25
    /\ intersections[1].phase_duration = MaxPhaseDuration
    /\ TotalWaiting(intersections[1].waiting_vehicles) > 0

-----------------------------------------------------------------------------
(* SpecHeavy: one controller fed heavy traffic, with waiting counts of 90    *)
(* and more, then updated and switched                                       *)

HeavyTraffic == { Dist(90, 4, 2, 1), Dist(7, 20, 170, 3), Dist(10, 20, 180, 90) }

InitHeavy == InitGrid(1)

NextHeavy ==
    \/ \E d \in HeavyTraffic : ProcessTrafficData(d)
    \/ \E ts \in UpdateSteps : Update(ts)
    \/ SwitchPhase

SpecHeavy == InitHeavy /\ [][NextHeavy]_vars

\* the directions that get green in the given phase
GreenDirections(phase) ==
    IF phase = NS_GREEN THEN {"north", "south"} ELSE {"east", "west"}

\* C30: switch_phase toggles current_phase, sets time_in_phase to 0 and
\* reduces the waiting count w of each of the two directions of the newly
\* green axis to w - floor(0.7 * w), leaving the counts of the other two
\* directions, phase_duration and emergency_mode unchanged.
C30_SwitchPhaseClearsSeventyPercent ==
    [][SwitchPhase
       => LET c  == intersections[1]
              c2 == intersections'[1]
          IN  /\ c2.current_phase = 1 - c.current_phase
              /\ c2.time_in_phase = 0
              /\ \A d \in Directions :
                    c2.waiting_vehicles[d]
                      = IF d \in GreenDirections(c2.current_phase)
                        THEN c.waiting_vehicles[d]
                               - ((7 * c.waiting_vehicles[d]) \div 10)
                        ELSE c.waiting_vehicles[d]
              /\ c2.phase_duration = c.phase_duration
              /\ c2.emergency_mode = c.emergency_mode
              /\ c2.historical_wait_times = c.historical_wait_times]_vars

-----------------------------------------------------------------------------
(* The forced switch of switch_to_emergency_mode, checked under SpecCtl *)

\* C31: switch_to_emergency_mode(direction) sets current_phase to NS_GREEN
\* for north/south and EW_GREEN otherwise, never changes waiting_vehicles or
\* historical_wait_times (a forced switch discharges no vehicles), resets
\* time_in_phase to 0 only when the phase actually changed and otherwise
\* leaves time_in_phase as it was.
C31_ForcedSwitchFrame ==
    [][\A direction \in Directions :
          SwitchToEmergencyMode(direction)
          => LET c  == intersections[1]
                 c2 == intersections'[1]
             IN  /\ c2.current_phase
                      = (IF direction \in {"north", "south"}
                         THEN NS_GREEN ELSE EW_GREEN)
                 /\ c2.waiting_vehicles = c.waiting_vehicles
                 /\ c2.historical_wait_times = c.historical_wait_times
                 /\ c2.time_in_phase
                      = (IF c2.current_phase # c.current_phase
                         THEN 0 ELSE c.time_in_phase)]_vars

\* C31 witness: switch_to_emergency_mode has just returned on a fed
\* controller that keeps 25 s in its phase and vehicles on the green axis
C31_Witness ==
    /\ ret.op = "switch_to_emergency_mode"
    /\ intersections[1].emergency_mode
    /\ intersections[1].time_in_phase = 25
    /\ intersections[1].current_phase = EW_GREEN
    /\ intersections[1].waiting_vehicles["east"] > 0
    /\ intersections[1].historical_wait_times # <<>>

-----------------------------------------------------------------------------
(* The clock and the metric sequences of the engine, checked under SpecSim *)

\* C32: each run_step call advances current_time by exactly the fixed
\* per-step increment and appends exactly one entry to each of
\* metrics.average_wait_time and metrics.fairness_index; so current_time
\* never decreases, and after any sequence of run_step and run_simulation
\* calls both metric sequences have the same length, equal to the number of
\* run_step calls executed.
C32_ClockAndMetricsPerStep ==
    /\ [](/\ Len(metrics.average_wait_time) = calls
          /\ Len(metrics.fairness_index) = calls)
    /\ [][/\ current_time' = current_time + SimTimeStep * (calls' - calls)
          /\ current_time' >= current_time
          /\ Len(metrics'.average_wait_time)
               = Len(metrics.average_wait_time) + (calls' - calls)
          /\ Len(metrics'.fairness_index)
               = Len(metrics.fairness_index) + (calls' - calls)]_vars

=============================================================================
